---- MODULE Spec2Model ----
(***************************************************************************)
(* Language tutor chat (main.py, util.py).  Every browser session runs the *)
(* script main.py from top to bottom on each interaction; the sessions     *)
(* share the process-wide history store and the mistakes table of util.py. *)
(* A script run that calls the model is split at the blocking call: the    *)
(* model's reply, or the failure of the call, is an input of the next step.*)
(* Text is a tuple of string parts, so "" is << >> and an f-string is the  *)
(* tuple of its parts.                                                     *)
(***************************************************************************)
EXTENDS Integers, Sequences, FiniteSets, TLC

\* ------------------------------------------------------------------ bounds
MaxIds       == 4   \* uuid4 values drawn since the process started
MaxTurns     == 2   \* user turns explored by Spec
MaxTurnTurns == 1   \* user turns explored by SpecTurn
MaxTime      == 1   \* seconds the clock of CURRENT_TIMESTAMP advances
MaxRows      == 52  \* rows of the stored tables feedback is generated from

\* ------------------------------------------------------- program constants
FeedbackLimit == 50

\* ------------------------------------------------------------------ inputs
Sessions == {"s1", "s2"}
SessionIndex(s) == IF s = "s1" THEN 1 ELSE 2

Ids == 1..MaxIds

NativeInputs  == {"", "English"}
TargetInputs  == {"", "French"}
Proficiencies == {"Beginner"}
Scenarios     == {"Restaurant Ordering"}

EmptyText == << >>
Text(t)   == <<t>>

FeedbackTexts == {Text("report")}
UserInputs    == {Text("user input")}

\* arguments the model may put in a log_mistake call: A1 and A2 repeat one
\* (error_sentence, corrected_sentence) pair with other arguments, A3 has
\* the same error_sentence with another correction
A1 == [native_lang |-> "English", target_lang |-> "French",
       error_sentence |-> "e1", corrected_sentence |-> "c1", error_type |-> "grammar"]
A2 == [native_lang |-> "German", target_lang |-> "Spanish",
       error_sentence |-> "e1", corrected_sentence |-> "c1", error_type |-> "syntax"]
A3 == [native_lang |-> "English", target_lang |-> "French",
       error_sentence |-> "e1", corrected_sentence |-> "c2", error_type |-> "vocabulary"]
ToolArgs == {A1, A2, A3}

\* replies of the model to a user message: text only, nothing at all, tool
\* calls only, and text with a tool call.  In <<A1, A3, A2>> the third call
\* repeats the key of the first after a call with another key.
Reply(c, argseq) == [content |-> c, calls |-> argseq]
TurnReplies ==
    {Reply(Text("reply"), << >>), Reply(EmptyText, << >>),
     Reply(Text("reply"), <<A1>>)}
    \cup {Reply(EmptyText, a) : a \in {<<A1>>, <<A1, A1>>, <<A1, A2>>, <<A1, A3>>,
                                       <<A3, A2>>, <<A1, A3, A2>>}}
LifeReplies ==
    {Reply(Text("reply"), << >>), Reply(EmptyText, <<A1, A2>>)}
\* replies to the opening input and to the follow-up input
PlainReplies == {Reply(Text("text"), << >>)}
OtherReplies == {Reply(Text("text"), << >>), Reply(EmptyText, <<A1>>)}
FeedbackOutcomes == {"ok", "query_error", "model_error"}
\* a reply's tool_calls: the i-th call carries the id i
ToolCalls(argseq) ==
    [i \in 1..Len(argseq) |-> [id |-> i, args |-> argseq[i]]]

\* ---------------------------------------------------------------- messages
HumanMessage(c)     == [type |-> "human", content |-> c]
AIMessage(c, tcs)   == [type |-> "ai", content |-> c, tool_calls |-> tcs]
ToolMessage(c, id)  == [type |-> "tool", content |-> c, tool_call_id |-> id]

UserEntry(c)        == [role |-> "user", content |-> c]
AssistantEntry(c)   == [role |-> "assistant", content |-> c]
ToolEntry(c, id)    == [role |-> "tool", content |-> c, tool_call_id |-> id]
FeedbackEntry(c, f) == [role |-> "assistant", content |-> c, figure |-> f]

NoConfig == [set |-> FALSE]
LessonConfig(n, t, p, sc) ==
    [set |-> TRUE, native_language |-> n, learning_language |-> t,
     proficiency_level |-> p, scenario |-> sc]

BeginInput(cfg)   == <<"Begin ", cfg.scenario, " scenario">>
ContinueInput     == Text("Continue the conversation naturally")
LoggedText_Swapped(e, c) == <<"Logged mistake: ", c, " -> ", e>>
LoggedText(e, c)  == <<"Logged mistake: ", e, " -> ", c>>
NoErrorsText      == Text("No errors logged yet.")
FeedbackErrorText == Text("Error generating feedback.")
NoFigure          == [none |-> TRUE]

\* ------------------------------------------------------------------- state
VARIABLES
    api_key,             \* st.session_state["OPENAI_API_KEY"] is non-empty
    config,              \* st.session_state.config
    session_id,          \* st.session_state.session_id
    messages,            \* st.session_state.messages, the UI transcript
    feedback_rendered,   \* st.session_state.feedback_rendered
    lesson_initialized,  \* st.session_state.lesson_initialized
    pc,                  \* where the session's script run is blocked
    store,               \* util.store: session_id -> InMemoryHistory.messages
    mistakes,            \* rows of table mistakes, in rowid order
    clock,               \* CURRENT_TIMESTAMP, in seconds
    next_uuid,           \* uuid4 values drawn so far, plus one
    turns,               \* user turns submitted so far
    turn,                \* per session: record of its current or last user turn
    last                 \* the handler step taken last

vars == <<api_key, config, session_id, messages, feedback_rendered,
          lesson_initialized, pc, store, mistakes, clock, next_uuid,
          turns, turn, last>>

session_vars == <<api_key, config, session_id, messages, feedback_rendered,
                  lesson_initialized>>

NoTurn == [phase |-> "none"]

\* InMemoryHistory: add_messages extends, clear empties
add_messages_Replace(h, msgs) == msgs
add_messages(h, msgs) == h \o msgs
clear_Keeps(h) == h
clear(h) == << >>

\* get_session_history(id).add_messages(msgs) on the process-wide store; an
\* absent key reads as the empty history that setdefault creates
StoreAdd_OneHistory(st, id, msgs) == [st EXCEPT ![1] = add_messages(st[1], msgs)]
StoreAdd(st, id, msgs) == [st EXCEPT ![id] = add_messages(st[id], msgs)]
StoreClear(st, id)     == [st EXCEPT ![id] = clear(st[id])]

\* RunnableWithMessageHistory saves the input message and the model's output
\* message in the session's history when the chain returns
ChainSave(st, id, input, content, tcs) ==
    StoreAdd(st, id, <<HumanMessage(input), AIMessage(content, tcs)>>)

Init ==
    /\ api_key = [s \in Sessions |-> FALSE]
    /\ config = [s \in Sessions |-> NoConfig]
    /\ session_id = [s \in Sessions |-> SessionIndex(s)]
    /\ messages = [s \in Sessions |-> << >>]
    /\ feedback_rendered = [s \in Sessions |-> FALSE]
    /\ lesson_initialized = [s \in Sessions |-> FALSE]
    /\ pc = [s \in Sessions |-> "idle"]
    /\ store = [i \in Ids |-> << >>]
    /\ mistakes = << >>
    /\ clock = 0
    /\ next_uuid = Cardinality(Sessions) + 1
    /\ turns = 0
    /\ turn = [s \in Sessions |-> NoTurn]
    /\ last = [op |-> "init", s |-> "s1"]

\* the lesson opening block is entered by a script run that reaches it with
\* an empty transcript and a config
OpeningDue(msgs, cfg) == msgs = << >> /\ cfg.set

\* sidebar: a non-empty key is typed; the script no longer stops at st.stop()
EnterApiKey(s) ==
    /\ pc[s] = "idle"
    /\ ~api_key[s]
    /\ api_key' = [api_key EXCEPT ![s] = TRUE]
    /\ last' = [op |-> "EnterApiKey", s |-> s]
    /\ UNCHANGED <<config, session_id, messages, feedback_rendered,
                   lesson_initialized, pc, store, mistakes, clock, next_uuid,
                   turns, turn>>

\* all([native_lang, target_lang])
BothLanguages_Any(native, target) == native # "" \/ target # ""
BothLanguages(native, target) == native # "" /\ target # ""

\* str(uuid.uuid4()): a value no earlier draw returned
uuid4_Stale == next_uuid - 1
uuid4 == next_uuid

\* "Start Lesson" pressed with the given widget values; last records whether
\* a language was missing in them
PressStartLesson(s, native, target, prof, scen) ==
    /\ pc[s] = "idle"
    /\ api_key[s]
    /\ last' = [op |-> IF native = "" \/ target = "" THEN "StartMissing"
                                                     ELSE "StartLesson",
                s |-> s]
    /\ IF BothLanguages(native, target)
       THEN /\ next_uuid <= MaxIds
            /\ config' = [config EXCEPT ![s] = LessonConfig(native, target, prof, scen)]
            /\ session_id' = [session_id EXCEPT ![s] = uuid4]
            /\ next_uuid' = next_uuid + 1
            /\ messages' = [messages EXCEPT ![s] = << >>]
            /\ feedback_rendered' = [feedback_rendered EXCEPT ![s] = FALSE]
            /\ lesson_initialized' = [lesson_initialized EXCEPT ![s] = FALSE]
            \* st.rerun(): the next run enters the lesson opening block
            /\ pc' = [pc EXCEPT ![s] = "opening"]
            /\ turn' = [turn EXCEPT ![s] = NoTurn]
       ELSE \* st.error; the run goes on to the lesson opening block
            /\ pc' = [pc EXCEPT ![s] =
                        IF OpeningDue(messages[s], config[s]) THEN "opening" ELSE "idle"]
            /\ UNCHANGED <<config, session_id, next_uuid, messages,
                           feedback_rendered, lesson_initialized, turn>>
    /\ UNCHANGED <<api_key, store, mistakes, clock, turns>>

\* any other widget interaction reruns the script; it only has an effect
\* when the lesson opening block is due
Rerun(s) ==
    /\ pc[s] = "idle"
    /\ api_key[s]
    /\ OpeningDue(messages[s], config[s])
    /\ pc' = [pc EXCEPT ![s] = "opening"]
    /\ last' = [op |-> "Rerun", s |-> s]
    /\ UNCHANGED <<session_vars, store, mistakes, clock, next_uuid, turns, turn>>

\* lesson opening block: the model answers "Begin <scenario> scenario"
OpeningReply(s, content, argseq) ==
    /\ pc[s] = "opening"
    /\ messages' = [messages EXCEPT ![s] = Append(@, AssistantEntry(content))]
    /\ store' = StoreAdd(ChainSave(store, session_id[s], BeginInput(config[s]),
                                   content, ToolCalls(argseq)),
                         session_id[s], <<AIMessage(content, << >>)>>)
    /\ lesson_initialized' = [lesson_initialized EXCEPT ![s] = TRUE]
    /\ pc' = [pc EXCEPT ![s] = "idle"]
    /\ last' = [op |-> "OpeningReply", s |-> s]
    /\ UNCHANGED <<api_key, config, session_id, feedback_rendered, mistakes,
                   clock, next_uuid, turns, turn>>

\* the opening call raises: the run is aborted with nothing changed
OpeningFail(s) ==
    /\ pc[s] = "opening"
    /\ pc' = [pc EXCEPT ![s] = "idle"]
    /\ last' = [op |-> "OpeningFail", s |-> s]
    /\ UNCHANGED <<session_vars, store, mistakes, clock, next_uuid, turns, turn>>

\* ------------------------------------------------------------- MistakeStore
\* log_mistake: INSERT with id AUTOINCREMENT and timestamp CURRENT_TIMESTAMP;
\* an sqlite3.Error is printed and swallowed, and no row is written
MistakeRow(rows, args, now) ==
    [id |-> Len(rows) + 1, timestamp |-> now,
     native_language |-> args.native_lang,
     target_language |-> args.target_lang,
     error_sentence |-> args.error_sentence,
     corrected_sentence |-> args.corrected_sentence,
     error_type |-> args.error_type]

log_mistake_Commits(rows, args, now, ok) ==
    Append(rows, MistakeRow(rows, args, now))
log_mistake(rows, args, now, ok) ==
    IF ok THEN Append(rows, MistakeRow(rows, args, now)) ELSE rows

\* store_mistake passes its arguments on to log_mistake.run
store_mistake_Swapped(rows, args, now, ok) ==
    log_mistake(rows, [args EXCEPT !.error_sentence = args.corrected_sentence,
                                   !.corrected_sentence = args.error_sentence],
                now, ok)
store_mistake(rows, args, now, ok) == log_mistake(rows, args, now, ok)

\* ------------------------------------------------------ TutorTurnController
\* the loop over response.tool_calls; acc holds the loop's variables:
\* logged_errors, tool_response_text, the table, the transcript, the history
ErrorKey_WithType(args) ==
    <<args.error_sentence, args.corrected_sentence, args.error_type>>
ErrorKey(args) == <<args.error_sentence, args.corrected_sentence>>

ToolStep(call, ok, now, acc) ==
    LET key   == ErrorKey(call.args)
        fresh == key \notin acc.logged_errors
        text  == IF fresh THEN LoggedText(key[1], key[2])
                          ELSE acc.tool_response_text
    IN  [logged_errors      |-> IF fresh THEN acc.logged_errors \cup {key}
                                         ELSE acc.logged_errors,
         tool_response_text |-> text,
         rows               |-> IF fresh
                                THEN store_mistake(acc.rows, call.args, now, ok)
                                ELSE acc.rows,
         entries            |-> IF fresh
                                THEN Append(acc.entries, ToolEntry(text, call.id))
                                ELSE acc.entries,
         history            |-> add_messages(acc.history, <<ToolMessage(text, call.id)>>)]

RECURSIVE ToolLoop_SkipsRepeats(_, _, _, _, _)
ToolLoop_SkipsRepeats(calls, outs, now, i, acc) ==
    IF i > Len(calls) THEN acc
    ELSE IF ErrorKey(calls[i].args) \in acc.logged_errors
         THEN ToolLoop_SkipsRepeats(calls, outs, now, i + 1, acc)
         ELSE ToolLoop_SkipsRepeats(calls, outs, now, i + 1,
                                    ToolStep(calls[i], outs[i], now, acc))

RECURSIVE ToolLoop(_, _, _, _, _)
ToolLoop(calls, outs, now, i, acc) ==
    IF i > Len(calls) THEN acc
    ELSE ToolLoop(calls, outs, now, i + 1, ToolStep(calls[i], outs[i], now, acc))

\* the (error_sentence, corrected_sentence) pair of a call's arguments
PairOf(args) == <<args.error_sentence, args.corrected_sentence>>

\* the INSERT of call i is due: no earlier call of the reply has its pair
Attempted(calls, i) ==
    \A j \in 1..(i - 1) : PairOf(calls[j].args) # PairOf(calls[i].args)

\* the chat input is rendered only if the lesson is initialized and feedback
\* is not rendered
ChatInputRendered_IgnoresFeedback(initialized, rendered) == initialized
ChatInputRendered(initialized, rendered) == initialized /\ ~rendered

\* chat input: a message is submitted while the input box is rendered
SubmitInput(s, user_input) ==
    /\ pc[s] = "idle"
    /\ api_key[s]
    /\ ~OpeningDue(messages[s], config[s])
    /\ ChatInputRendered(lesson_initialized[s], feedback_rendered[s])
    /\ turns' = turns + 1
    /\ messages' = [messages EXCEPT ![s] = Append(@, UserEntry(user_input))]
    /\ store' = StoreAdd(store, session_id[s], <<HumanMessage(user_input)>>)
    /\ pc' = [pc EXCEPT ![s] = "first"]
    /\ turn' = [turn EXCEPT ![s] =
                  [phase |-> "first", sid |-> session_id[s],
                   pre |-> store[session_id[s]], pre_ui |-> messages[s],
                   pre_rows |-> << >>,
                   input |-> user_input, content |-> EmptyText,
                   calls |-> << >>, failed |-> {}, inserted |-> << >>,
                   invocations |-> 0, followups |-> 0, visible |-> EmptyText]]
    /\ last' = [op |-> "SubmitInput", s |-> s]
    /\ UNCHANGED <<api_key, config, session_id, feedback_rendered,
                   lesson_initialized, mistakes, clock, next_uuid>>

\* a follow-up is asked for exactly when the reply carries tool calls
NeedsFollowUp_OrEmpty(content, calls) == calls # << >> \/ content = EmptyText
NeedsFollowUp(content, calls) == calls # << >>

\* logged_errors = set(): the pairs already logged are tracked per turn
NewLoggedErrors_FromTable(rows) ==
    {<<rows[i].error_sentence, rows[i].corrected_sentence>> : i \in 1..Len(rows)}
NewLoggedErrors(rows) == {}

\* the first model call of the turn returns content and tool_calls; outs[i]
\* says whether the INSERT of call i, if it is attempted, succeeds
FirstReply(s, content, argseq, outs) ==
    /\ pc[s] = "first"
    /\ LET sid   == session_id[s]
           calls == ToolCalls(argseq)
           saved == ChainSave(store, sid, turn[s].input, content, calls)
           acc   == ToolLoop(calls, outs, clock, 1,
                             [logged_errors |-> NewLoggedErrors(mistakes),
                              tool_response_text |-> EmptyText,
                              rows |-> mistakes, entries |-> messages[s],
                              history |-> saved[sid]])
           t     == [turn[s] EXCEPT !.content = content, !.calls = calls,
                                    !.failed = {i \in 1..Len(calls) :
                                                  Attempted(calls, i) /\ ~outs[i]},
                                    !.invocations = 1, !.pre_rows = mistakes,
                                    !.inserted = SubSeq(acc.rows, Len(mistakes) + 1,
                                                        Len(acc.rows))]
       IN  /\ mistakes' = acc.rows
           /\ IF NeedsFollowUp(content, calls)
              THEN /\ messages' = [messages EXCEPT ![s] = acc.entries]
                   /\ store' = [saved EXCEPT ![sid] = acc.history]
                   /\ pc' = [pc EXCEPT ![s] = "follow"]
                   /\ turn' = [turn EXCEPT ![s] = [t EXCEPT !.phase = "follow"]]
              ELSE /\ messages' = [messages EXCEPT ![s] =
                                     Append(acc.entries, AssistantEntry(content))]
                   /\ store' = [saved EXCEPT ![sid] =
                                  add_messages(acc.history, <<AIMessage(content, << >>)>>)]
                   /\ pc' = [pc EXCEPT ![s] = "idle"]
                   /\ turn' = [turn EXCEPT ![s] =
                                 [t EXCEPT !.phase = "done", !.visible = content]]
    /\ last' = [op |-> "FirstReply", s |-> s]
    /\ UNCHANGED <<api_key, config, session_id, feedback_rendered,
                   lesson_initialized, clock, next_uuid, turns>>

\* the first model call raises: the run is aborted
FirstFail(s) ==
    /\ pc[s] = "first"
    /\ pc' = [pc EXCEPT ![s] = "idle"]
    /\ turn' = [turn EXCEPT ![s] = [@ EXCEPT !.phase = "aborted", !.invocations = 1]]
    /\ last' = [op |-> "FirstFail", s |-> s]
    /\ UNCHANGED <<session_vars, store, mistakes, clock, next_uuid, turns>>

\* the follow-up call "Continue the conversation naturally" returns
FollowUpReply_AsksAgain(s, content, argseq) ==
    /\ pc[s] = "follow"
    /\ LET sid == session_id[s]
       IN  /\ messages' = [messages EXCEPT ![s] = Append(@, AssistantEntry(content))]
           /\ store' = StoreAdd(ChainSave(store, sid, ContinueInput, content,
                                          ToolCalls(argseq)),
                                sid, <<AIMessage(content, << >>)>>)
    /\ pc' = [pc EXCEPT ![s] = IF argseq # << >> THEN "follow" ELSE "idle"]
    /\ turn' = [turn EXCEPT ![s] =
                  [@ EXCEPT !.phase = "done", !.visible = content,
                            !.invocations = @ + 1, !.followups = @ + 1]]
    /\ last' = [op |-> "FollowUpReply", s |-> s]
    /\ UNCHANGED <<api_key, config, session_id, feedback_rendered,
                   lesson_initialized, mistakes, clock, next_uuid, turns>>
FollowUpReply(s, content, argseq) ==
    /\ pc[s] = "follow"
    /\ LET sid == session_id[s]
       IN  /\ messages' = [messages EXCEPT ![s] = Append(@, AssistantEntry(content))]
           /\ store' = StoreAdd(ChainSave(store, sid, ContinueInput, content,
                                          ToolCalls(argseq)),
                                sid, <<AIMessage(content, << >>)>>)
    /\ pc' = [pc EXCEPT ![s] = "idle"]
    /\ turn' = [turn EXCEPT ![s] =
                  [@ EXCEPT !.phase = "done", !.visible = content,
                            !.invocations = @ + 1, !.followups = @ + 1]]
    /\ last' = [op |-> "FollowUpReply", s |-> s]
    /\ UNCHANGED <<api_key, config, session_id, feedback_rendered,
                   lesson_initialized, mistakes, clock, next_uuid, turns>>

\* the follow-up call raises: the run is aborted
FollowUpFail(s) ==
    /\ pc[s] = "follow"
    /\ pc' = [pc EXCEPT ![s] = "idle"]
    /\ turn' = [turn EXCEPT ![s] =
                  [@ EXCEPT !.phase = "aborted", !.invocations = @ + 1,
                            !.followups = @ + 1]]
    /\ last' = [op |-> "FollowUpFail", s |-> s]
    /\ UNCHANGED <<session_vars, store, mistakes, clock, next_uuid, turns>>

\* ------------------------------------------------------- FeedbackAggregator
\* SELECT ... ORDER BY timestamp DESC LIMIT n: any n rows (all of them when
\* there are fewer) that no omitted row is newer than; ties in timestamp are
\* broken as the engine likes
Min(a, b) == IF a < b THEN a ELSE b

\* the timestamp of the last row the LIMIT lets through: fewer than n rows are
\* newer than it, at least n rows are as new as it
CutTime(rows, n) ==
    CHOOSE t \in {rows[i].timestamp : i \in 1..Len(rows)} :
        /\ Cardinality({i \in 1..Len(rows) : rows[i].timestamp > t}) < n
        /\ Cardinality({i \in 1..Len(rows) : rows[i].timestamp >= t}) >= n

RecentSets(rows, n) ==
    IF Len(rows) <= n THEN {1..Len(rows)}
    ELSE LET t     == CutTime(rows, n)
             newer == {i \in 1..Len(rows) : rows[i].timestamp > t}
             ties  == {i \in 1..Len(rows) : rows[i].timestamp = t}
         IN  {newer \cup T : T \in {U \in SUBSET ties :
                                       Cardinality(U) = n - Cardinality(newer)}}

\* df['error_type'].value_counts(): the count of every error_type present
value_counts_Presence(rows, S) ==
    [ty \in {rows[i].error_type : i \in S} |-> 1]
value_counts(rows, S) ==
    [ty \in {rows[i].error_type : i \in S} |->
        Cardinality({i \in S : rows[i].error_type = ty})]

\* get_feedback_with_graph: outcome is "ok", "query_error" (the SELECT
\* raises) or "model_error" (the model call raises); the third component
\* tells where the function returned: "query_error" or "empty" (before the
\* model is invoked), "model_error" or "report" (after it)
get_feedback_with_graph_NoEmptyCheck(rows, S, outcome, text) ==
    IF outcome = "query_error" THEN <<FeedbackErrorText, NoFigure, "query_error">>
    ELSE IF outcome = "model_error" THEN <<FeedbackErrorText, NoFigure, "model_error">>
    ELSE <<text, value_counts(rows, S), "report">>
get_feedback_with_graph(rows, S, outcome, text) ==
    IF outcome = "query_error" THEN <<FeedbackErrorText, NoFigure, "query_error">>
    ELSE IF S = {} THEN <<NoErrorsText, NoFigure, "empty">>
    ELSE IF outcome = "model_error" THEN <<FeedbackErrorText, NoFigure, "model_error">>
    ELSE <<text, value_counts(rows, S), "report">>

\* "Generate Feedback" pressed
generate_feedback(s, S, outcome, text) ==
    /\ pc[s] = "idle"
    /\ api_key[s]
    /\ LET fb == get_feedback_with_graph(mistakes, S, outcome, text)
       IN  /\ messages' = [messages EXCEPT ![s] = <<FeedbackEntry(fb[1], fb[2])>>]
           /\ store' = StoreAdd(StoreClear(store, session_id[s]), session_id[s],
                                <<AIMessage(fb[1], << >>)>>)
    /\ feedback_rendered' = [feedback_rendered EXCEPT ![s] = TRUE]
    /\ last' = [op |-> "GenerateFeedback", s |-> s,
                path |-> get_feedback_with_graph(mistakes, S, outcome, text)[3]]
    /\ turn' = [turn EXCEPT ![s] = NoTurn]
    /\ UNCHANGED <<api_key, config, session_id, lesson_initialized, pc,
                   mistakes, clock, next_uuid, turns>>

\* --------------------------------------------------------------- the process
\* init_db at import: DROP TABLE IF EXISTS mistakes, then CREATE TABLE
init_db(rows) == << >>

\* the server process is started again: util is imported (init_db, store = {})
\* and every browser session starts from init_session_state without a key.
\* The uuid4 values are only ever compared with keys of store, which is empty
\* again, so they are numbered from the start.
Restart ==
    /\ mistakes' = init_db(mistakes)
    /\ store' = [i \in Ids |-> << >>]
    /\ api_key' = [s \in Sessions |-> FALSE]
    /\ config' = [s \in Sessions |-> NoConfig]
    /\ session_id' = [s \in Sessions |-> SessionIndex(s)]
    /\ next_uuid' = Cardinality(Sessions) + 1
    /\ messages' = [s \in Sessions |-> << >>]
    /\ feedback_rendered' = [s \in Sessions |-> FALSE]
    /\ lesson_initialized' = [s \in Sessions |-> FALSE]
    /\ pc' = [s \in Sessions |-> "idle"]
    /\ turn' = [s \in Sessions |-> NoTurn]
    /\ last' = [op |-> "Restart", s |-> "s1"]
    /\ UNCHANGED <<clock, turns>>

Tick ==
    /\ clock < MaxTime
    /\ clock' = clock + 1
    /\ UNCHANGED <<session_vars, pc, store, mistakes, next_uuid, turns, turn, last>>

\* ---------------------------------------------------------- specifications
\* Spec: two browser sessions over the shared store and table, with a small
\* choice of replies and all within one second of the clock
Outcomes(argseq) == [1..Len(argseq) -> BOOLEAN]

Next ==
    \/ \E s \in Sessions : EnterApiKey(s)
    \/ \E s \in Sessions, n \in NativeInputs, t \in TargetInputs,
          p \in Proficiencies, sc \in Scenarios : PressStartLesson(s, n, t, p, sc)
    \/ \E s \in Sessions : Rerun(s)
    \/ \E s \in Sessions, r \in PlainReplies : OpeningReply(s, r.content, r.calls)
    \/ \E s \in Sessions : OpeningFail(s)
    \/ \E s \in Sessions, u \in UserInputs : turns < MaxTurns /\ SubmitInput(s, u)
    \/ \E s \in Sessions, r \in LifeReplies :
          \E o \in Outcomes(r.calls) : FirstReply(s, r.content, r.calls, o)
    \/ \E s \in Sessions : FirstFail(s)
    \/ \E s \in Sessions, r \in PlainReplies : FollowUpReply(s, r.content, r.calls)
    \/ \E s \in Sessions : FollowUpFail(s)
    \/ \E s \in Sessions, S \in RecentSets(mistakes, FeedbackLimit),
          o \in FeedbackOutcomes, c \in FeedbackTexts :
          generate_feedback(s, S, o, c)
    \/ Restart

Spec == Init /\ [][Next]_vars

\* SpecTurn: one browser session of one run of the process, the replies of
\* TurnReplies, and the clock
One == {"s1"}

NextTurn ==
    \/ \E s \in One : EnterApiKey(s)
    \/ \E s \in One, n \in NativeInputs, t \in TargetInputs,
          p \in Proficiencies, sc \in Scenarios : PressStartLesson(s, n, t, p, sc)
    \/ \E s \in One : Rerun(s)
    \/ \E s \in One, r \in OtherReplies : OpeningReply(s, r.content, r.calls)
    \/ \E s \in One : OpeningFail(s)
    \/ \E s \in One, u \in UserInputs : turns < MaxTurnTurns /\ SubmitInput(s, u)
    \/ \E s \in One, r \in TurnReplies :
          \E o \in Outcomes(r.calls) : FirstReply(s, r.content, r.calls, o)
    \/ \E s \in One : FirstFail(s)
    \/ \E s \in One, r \in OtherReplies : FollowUpReply(s, r.content, r.calls)
    \/ \E s \in One : FollowUpFail(s)
    \/ \E s \in One, S \in RecentSets(mistakes, FeedbackLimit),
          o \in FeedbackOutcomes, c \in FeedbackTexts :
          generate_feedback(s, S, o, c)
    \/ Tick

SpecTurn == Init /\ [][NextTurn]_vars

\* SpecTurnFair: SpecTurn where a pending model call of the turn handler
\* returns or raises: conversation.invoke is a blocking call of the script
\* run, made under the client's request timeout
TurnStep(s) ==
    \/ \E r \in TurnReplies :
          \E o \in Outcomes(r.calls) : FirstReply(s, r.content, r.calls, o)
    \/ FirstFail(s)
    \/ \E r \in OtherReplies : FollowUpReply(s, r.content, r.calls)
    \/ FollowUpFail(s)

SpecTurnFair == SpecTurn /\ \A s \in One : WF_vars(TurnStep(s))

\* SpecFeedback: feedback generation as a function of the stored table. The
\* browser sessions are new ones, and the table holds what earlier sessions
\* of the same process have logged: n rows, the i-th with id i, the first two
\* logged within one second and every later one a second after the one
\* before, the oldest k of type "vocabulary" and the others alternating
\* between "grammar" and "syntax".
OldestKinds == 3
StoredArgs(i, k) == IF i <= k THEN A3 ELSE IF i % 2 = 1 THEN A1 ELSE A2
StoredTime(i) == IF i <= 2 THEN 0 ELSE i - 2

RECURSIVE StoredTable(_, _)
StoredTable(n, k) ==
    IF n = 0 THEN << >>
    ELSE log_mistake(StoredTable(n - 1, k), StoredArgs(n, k), StoredTime(n), TRUE)

InitFeedback ==
    /\ api_key = [s \in Sessions |-> FALSE]
    /\ config = [s \in Sessions |-> NoConfig]
    /\ session_id = [s \in Sessions |-> SessionIndex(s)]
    /\ messages = [s \in Sessions |-> << >>]
    /\ feedback_rendered = [s \in Sessions |-> FALSE]
    /\ lesson_initialized = [s \in Sessions |-> FALSE]
    /\ pc = [s \in Sessions |-> "idle"]
    /\ store = [i \in Ids |-> << >>]
    /\ \E n \in 0..MaxRows : \E k \in 0..Min(n, OldestKinds) :
          /\ mistakes = StoredTable(n, k)
          /\ clock = StoredTime(n)
    /\ next_uuid = Cardinality(Sessions) + 1
    /\ turns = 0
    /\ turn = [s \in Sessions |-> NoTurn]
    /\ last = [op |-> "init", s |-> "s1"]

NextFeedback ==
    \/ \E s \in Sessions : EnterApiKey(s)
    \/ \E s \in Sessions, S \in RecentSets(mistakes, FeedbackLimit),
          o \in FeedbackOutcomes, c \in FeedbackTexts :
          generate_feedback(s, S, o, c)

SpecFeedback == InitFeedback /\ [][NextFeedback]_vars

\* ------------------------------------------------------------ claim helpers
RowKey(r) == <<r.error_sentence, r.corrected_sentence>>
RowArgs(r) ==
    [native_lang |-> r.native_language, target_lang |-> r.target_language,
     error_sentence |-> r.error_sentence,
     corrected_sentence |-> r.corrected_sentence, error_type |-> r.error_type]
RowsFor(rows, k) == {i \in 1..Len(rows) : RowKey(rows[i]) = k}
CallsFor(calls, k) == {i \in 1..Len(calls) : PairOf(calls[i].args) = k}
RepeatedKeys(calls) ==
    {k \in {PairOf(calls[i].args) : i \in 1..Len(calls)} :
        Cardinality(CallsFor(calls, k)) >= 2}
FirstCall(calls, k) ==
    CHOOSE i \in CallsFor(calls, k) : \A j \in CallsFor(calls, k) : i <= j
\* the first reply of the session's turn has been processed
Replied(s) == turn[s].phase \in {"follow", "done", "aborted"} /\ turn[s].invocations >= 1
Done(s) == turn[s].phase = "done"
\* what the turn has added to the history of its session so far
TurnHistory(s) ==
    SubSeq(store[turn[s].sid], Len(turn[s].pre) + 1, Len(store[turn[s].sid]))
ToolMessages(h) == SelectSeq(h, LAMBDA m : m.type = "tool")
ContinueCount(h) ==
    Cardinality({i \in 1..Len(h) : h[i] = HumanMessage(ContinueInput)})
LastOf(q) == q[Len(q)]

\* C1 as stated: for every (error_sentence, corrected_sentence) pair that
\* several tool calls of the first reply carry, the turn inserts exactly one
\* row.
C1_Original ==
    \A s \in Sessions : Replied(s) =>
        \A k \in RepeatedKeys(turn[s].calls) :
            Cardinality(RowsFor(turn[s].inserted, k)) = 1

\* C1: for every pair that several tool calls of the first reply carry, the
\* turn inserts at most one row: exactly one, holding the arguments of the
\* first call with that pair, when the INSERT of that call succeeds, and none
\* when it fails, whatever the other arguments of the repeated calls are.
C1_AtMostOneRow ==
    \A s \in Sessions : Replied(s) =>
        \A k \in RepeatedKeys(turn[s].calls) :
            LET first == FirstCall(turn[s].calls, k)
                rows  == RowsFor(turn[s].inserted, k)
            IN  IF first \in turn[s].failed
                THEN rows = {}
                ELSE /\ Cardinality(rows) = 1
                     /\ \A i \in rows :
                          RowArgs(turn[s].inserted[i]) = turn[s].calls[first].args

C1_Witness ==
    \E s \in Sessions :
        /\ Done(s)
        /\ \E i, j \in 1..Len(turn[s].calls) :
              /\ i < j
              /\ PairOf(turn[s].calls[i].args) = PairOf(turn[s].calls[j].args)
              /\ turn[s].calls[i].args.error_type # turn[s].calls[j].args.error_type
        /\ Len(turn[s].inserted) = 1

\* C2 as stated: a completed turn has issued exactly one follow-up invocation
\* when the first reply had a tool call or empty content, and none otherwise.
C2_Original ==
    \A s \in Sessions : Done(s) =>
        (turn[s].followups = 1
            <=> (turn[s].calls # << >> \/ turn[s].content = EmptyText))

\* C2: exactly one follow-up invocation, with the input "Continue the
\* conversation naturally", is issued when the first reply has at least one
\* tool call, and its content becomes the turn's visible assistant message;
\* in every other case, a first reply with empty content and no tool call
\* included, no follow-up is issued and the first reply's content is the
\* visible message.
C2_FollowUpIffToolCalls ==
    \A s \in Sessions :
        /\ (turn[s].phase = "follow" =>
                turn[s].calls # << >> /\ pc[s] = "follow"
                /\ ContinueCount(TurnHistory(s)) = 0)
        /\ (Done(s) =>
                LET h == TurnHistory(s)
                    n == ContinueCount(h)
                IN  /\ n = (IF turn[s].calls # << >> THEN 1 ELSE 0)
                    /\ n = turn[s].followups
                    /\ IF n = 1
                       THEN /\ h[Len(h) - 2] = HumanMessage(ContinueInput)
                            /\ h[Len(h) - 1].type = "ai"
                            /\ LastOf(messages[s]) = AssistantEntry(h[Len(h) - 1].content)
                       ELSE LastOf(messages[s]) = AssistantEntry(turn[s].content))

C2_Witness ==
    \E s \in Sessions :
        /\ Done(s)
        /\ turn[s].calls # << >>
        /\ turn[s].followups = 1
        /\ LastOf(messages[s]) = AssistantEntry(Text("text"))

\* C3 as stated: after a completed turn the history of the session is the
\* history before the turn, the user message, the turn's tool-result
\* messages and the final assistant message, and nothing else.
C3_Original ==
    \A s \in Sessions : Done(s) =>
        store[turn[s].sid] =
            turn[s].pre \o <<HumanMessage(turn[s].input)>>
                        \o ToolMessages(TurnHistory(s))
                        \o <<AIMessage(turn[s].visible, << >>)>>

\* C4 as stated: after a turn aborted by a failed model invocation the
\* history of the session is the history before the turn plus the user
\* message.
C4_Original ==
    \A s \in Sessions : turn[s].phase = "aborted" =>
        store[turn[s].sid] = turn[s].pre \o <<HumanMessage(turn[s].input)>>

\* C7: when the INSERT of a tool call fails in a turn, the turn goes on: the
\* follow-up call is issued, its reply is appended as the final assistant
\* message to the transcript and to the history, and the table has gained
\* the rows of the calls whose INSERT succeeded and no row for a failed one.
C7_StorageErrorSwallowed ==
    \A s \in Sessions : (Replied(s) /\ turn[s].failed # {}) =>
        /\ (pc[s] = "follow" /\ turn[s].phase = "follow") \/ turn[s].followups = 1
        /\ mistakes = turn[s].pre_rows \o turn[s].inserted
        /\ Len(turn[s].inserted) =
              Cardinality({i \in 1..Len(turn[s].calls) :
                              Attempted(turn[s].calls, i) /\ i \notin turn[s].failed})
        /\ \A i \in turn[s].failed :
              RowsFor(turn[s].inserted, PairOf(turn[s].calls[i].args)) = {}
        /\ (Done(s) =>
              /\ LastOf(messages[s]) = AssistantEntry(turn[s].visible)
              /\ LastOf(store[turn[s].sid]) = AIMessage(turn[s].visible, << >>)
              /\ ContinueCount(TurnHistory(s)) = 1)

C7_Witness ==
    \E s \in Sessions :
        /\ Done(s)
        /\ turn[s].failed # {}
        /\ turn[s].inserted = << >>
        /\ LastOf(messages[s]) = AssistantEntry(Text("text"))

IsPrefix(a, b) == Len(a) <= Len(b) /\ SubSeq(b, 1, Len(a)) = a

\* C5: a Start Lesson press with both languages gives the session an id that
\* no session had since the process started; the history of that id and the
\* UI transcript of the session are empty, and the mistakes table and every
\* stored history are as before.
C5_StartLessonFresh ==
    [][\A s \in Sessions : (last'.op = "StartLesson" /\ last'.s = s) =>
          /\ session_id'[s] \notin 1..(next_uuid - 1)
          /\ \A x \in Sessions : session_id'[s] # session_id[x]
          /\ store'[session_id'[s]] = << >>
          /\ messages'[s] = << >>
          /\ mistakes' = mistakes
          /\ store' = store]_vars

C5_Witness ==
    /\ last.op = "StartLesson"
    /\ messages[last.s] = << >>
    /\ mistakes # << >>
    /\ \E i \in Ids : store[i] # << >>

\* C6 as stated: rows of the mistakes table appear only in the step that
\* executes the tool calls of a user turn, and no step removes or changes a
\* row that is there.
C6_Original ==
    [][/\ IsPrefix(mistakes, mistakes')
       /\ (mistakes' # mistakes => last'.op = "FirstReply")]_vars

\* C9 as stated: a Start Lesson press with a language missing leaves config,
\* session_id, transcript, histories and both flags unchanged, and no model
\* invocation results from it.
C9_Original ==
    [][\A s \in Sessions : (last'.op = "StartMissing" /\ last'.s = s) =>
          /\ UNCHANGED <<config, session_id, messages, store,
                         lesson_initialized, feedback_rendered>>
          /\ pc'[s] = "idle"]_vars

\* C9: a Start Lesson press with a language missing leaves config,
\* session_id, transcript, histories, both flags and the table unchanged; a
\* model invocation follows it only when the lesson opening of the current
\* config is still due (config set, transcript empty, lesson not
\* initialized), and is then that opening call.
C9_MissingLanguageRejected ==
    [][\A s \in Sessions : (last'.op = "StartMissing" /\ last'.s = s) =>
          /\ UNCHANGED <<config, session_id, messages, store,
                         lesson_initialized, feedback_rendered, mistakes,
                         next_uuid>>
          /\ pc'[s] \in {"idle", "opening"}
          /\ pc'[s] = "opening" =>
                (messages[s] = << >> /\ config[s].set /\ ~lesson_initialized[s])]_vars

C9_Witness ==
    /\ last.op = "StartMissing"
    /\ pc[last.s] = "idle"
    /\ lesson_initialized[last.s]
    /\ store[session_id[last.s]] # << >>

\* C10: in every step other than Generate Feedback (and the restart of the
\* process, which starts with an empty store) each stored history keeps what
\* it held and is only appended to; Generate Feedback changes the history of
\* the current session_id of its session and no other.
C10_HistoryAppendOnly ==
    [][/\ last'.op \notin {"GenerateFeedback", "Restart"} =>
            \A i \in Ids : IsPrefix(store[i], store'[i])
       /\ last'.op = "GenerateFeedback" =>
            \A i \in Ids \ {session_id[last'.s]} : store'[i] = store[i]]_vars

C10_Witness ==
    /\ last.op = "FollowUpReply"
    /\ Len(store[session_id[last.s]]) >= 8

\* ------------------------------------------------------------------- C11
FeedbackShown(s) == last.op = "GenerateFeedback" /\ last.s = s
Figure(s) == messages[s][1].figure
RECURSIVE Total(_)
Total(f) ==
    IF DOMAIN f = {} THEN 0
    ELSE LET ty == CHOOSE x \in DOMAIN f : TRUE
         IN  f[ty] + Total([x \in DOMAIN f \ {ty} |-> f[x]])
FigureCount(f, ty) == IF ty \in DOMAIN f THEN f[ty] ELSE 0
TypesOf(rows) == {rows[i].error_type : i \in 1..Len(rows)}
RowsOfType(rows, ty) == {i \in 1..Len(rows) : rows[i].error_type = ty}
\* rows that every answer to the SELECT holds: fewer than FeedbackLimit rows
\* are as new as they are
SurelyRead(rows) ==
    {i \in 1..Len(rows) :
        Cardinality({j \in 1..Len(rows) : rows[j].timestamp >= rows[i].timestamp})
            <= FeedbackLimit}
\* rows that no answer to the SELECT holds: FeedbackLimit rows are newer
SurelyCut(rows) ==
    {i \in 1..Len(rows) :
        Cardinality({j \in 1..Len(rows) : rows[j].timestamp > rows[i].timestamp})
            >= FeedbackLimit}

\* C11 as stated: a report on a table of N rows comes with a distribution
\* whose counts sum to N, the count of every error_type being the number of
\* stored rows of that type.
C11_Original ==
    \A s \in Sessions : (FeedbackShown(s) /\ last.path = "report") =>
        /\ Total(Figure(s)) = Len(mistakes)
        /\ \A ty \in TypesOf(mistakes) :
              FigureCount(Figure(s), ty) = Cardinality(RowsOfType(mistakes, ty))

\* C11: a report on a table of N rows comes with a distribution over the
\* FeedbackLimit most recent rows only. Its counts sum to the smaller of N
\* and FeedbackLimit; every count is at least 1 and lies between the number
\* of rows of that type that are certainly among the most recent and the
\* number that are not certainly cut off; when N is at most FeedbackLimit
\* the count of every error_type is the number of stored rows of that type.
C11_CountsOfRecentRows ==
    \A s \in Sessions : (FeedbackShown(s) /\ last.path = "report") =>
        LET f == Figure(s) IN
        /\ Total(f) = Min(Len(mistakes), FeedbackLimit)
        /\ DOMAIN f \subseteq TypesOf(mistakes)
        /\ \A ty \in DOMAIN f : f[ty] >= 1
        /\ \A ty \in TypesOf(mistakes) :
              /\ FigureCount(f, ty)
                    >= Cardinality(RowsOfType(mistakes, ty) \cap SurelyRead(mistakes))
              /\ FigureCount(f, ty)
                    <= Cardinality(RowsOfType(mistakes, ty) \ SurelyCut(mistakes))
        /\ Len(mistakes) <= FeedbackLimit =>
              \A ty \in TypesOf(mistakes) :
                  FigureCount(f, ty) = Cardinality(RowsOfType(mistakes, ty))

C11_Witness ==
    \E s \in Sessions :
        /\ FeedbackShown(s)
        /\ last.path = "report"
        /\ Len(mistakes) > FeedbackLimit
        /\ Cardinality(DOMAIN Figure(s)) >= 2
        /\ Total(Figure(s)) = FeedbackLimit

\* ------------------------------------------------------------------- C12
\* C12 as stated: feedback generated on an empty table is the fixed message
\* "No errors logged yet." without a chart, returned before any model call.
C12_Original ==
    \A s \in Sessions : (FeedbackShown(s) /\ mistakes = << >>) =>
        /\ messages[s] = <<FeedbackEntry(NoErrorsText, NoFigure)>>
        /\ last.path = "empty"

\* C12: feedback generated on an empty table never invokes the model and
\* never comes with a chart; its message is "No errors logged yet." when the
\* SELECT succeeds and "Error generating feedback." when the SELECT raises.
C12_EmptyTableNoModelCall ==
    \A s \in Sessions : (FeedbackShown(s) /\ mistakes = << >>) =>
        /\ last.path \in {"empty", "query_error"}
        /\ Figure(s) = NoFigure
        /\ last.path = "empty" => messages[s] = <<FeedbackEntry(NoErrorsText, NoFigure)>>
        /\ last.path = "query_error" =>
              messages[s] = <<FeedbackEntry(FeedbackErrorText, NoFigure)>>

C12_Witness ==
    \E s \in Sessions :
        /\ FeedbackShown(s)
        /\ mistakes = << >>
        /\ last.path = "empty"
        /\ messages[s][1].content = NoErrorsText

\* ------------------------------------------------------------------- C13
\* C13: a Generate Feedback step leaves the mistakes table as it was, and
\* after it the UI transcript of the session holds exactly one entry, the
\* assistant entry with the text feedback generation returned, and the
\* history of the session's session_id holds exactly one message, the
\* assistant message with that text; nothing older is left in either.
C13_FeedbackReplacesTranscript ==
    [][\A s \in Sessions : (last'.op = "GenerateFeedback" /\ last'.s = s) =>
          /\ mistakes' = mistakes
          /\ session_id' = session_id
          /\ Len(messages'[s]) = 1
          /\ messages'[s][1].role = "assistant"
          /\ messages'[s][1].content \in
                FeedbackTexts \cup {NoErrorsText, FeedbackErrorText}
          /\ store'[session_id[s]] = <<AIMessage(messages'[s][1].content, << >>)>>
      ]_vars

C13_Witness ==
    \E s \in Sessions :
        /\ FeedbackShown(s)
        /\ last.path = "report"
        /\ lesson_initialized[s]
        /\ mistakes # << >>
        /\ Len(messages[s]) = 1
        /\ Len(store[session_id[s]]) = 1

\* ------------------------------------------------------------------- C14
\* C14: a step of a browser session (a user turn, a lesson opening, a Start
\* Lesson, a Generate Feedback) changes no history but the one keyed by the
\* session_id that session holds when it takes the step, and no other
\* session holds that session_id: whatever the interleaving, the histories
\* of all other session_ids stay as they are.
C14_OnlyOwnHistory ==
    [][last'.op # "Restart" =>
          \A i \in Ids : store'[i] # store[i] =>
              /\ i = session_id[last'.s]
              /\ \A x \in Sessions \ {last'.s} : session_id[x] # i
      ]_vars

C14_Witness ==
    /\ last.op = "FollowUpReply"
    /\ session_id["s1"] # session_id["s2"]
    /\ \A s \in Sessions : Len(store[session_id[s]]) >= 2
    /\ \E s \in Sessions : pc[s] = "first"

\* ------------------------------------------------------------------- C15
\* what the turn has added to the UI transcript of its session so far
TurnEntries(s) == SubSeq(messages[s], Len(turn[s].pre_ui) + 1, Len(messages[s]))
ToolEntries(q) == SelectSeq(q, LAMBDA e : e.role = "tool")
\* a tool entry of the transcript as the tool message with its text and id
AsToolMessages(q) == [i \in 1..Len(q) |-> ToolMessage(q[i].content, q[i].tool_call_id)]
\* the calls whose pair no earlier call of the reply carries, in call order
FreshCalls(calls) == SelectSeq(calls, LAMBDA c : Attempted(calls, c.id))
LoggedMessage(call) ==
    ToolMessage(<<"Logged mistake: ", call.args.error_sentence, " -> ",
                  call.args.corrected_sentence>>, call.id)
FreshMessages(calls) ==
    [i \in 1..Len(FreshCalls(calls)) |-> LoggedMessage(FreshCalls(calls)[i])]
\* the last call up to call i whose pair was not processed before it
LatestFresh(calls, i) ==
    CHOOSE j \in 1..i :
        Attempted(calls, j) /\ \A m \in (j + 1)..i : ~Attempted(calls, m)

\* C15 as stated: the tool-result messages a turn appends to the UI
\* transcript and to the history are the same sequence, one "Logged mistake"
\* message per call whose pair was not yet processed, carrying the call's id.
C15_Original ==
    \A s \in Sessions : Replied(s) =>
        /\ AsToolMessages(ToolEntries(TurnEntries(s))) = FreshMessages(turn[s].calls)
        /\ ToolMessages(TurnHistory(s)) = FreshMessages(turn[s].calls)

\* C15: the tool entries a turn appends to the UI transcript are one "Logged
\* mistake: X -> Y" entry per call whose pair was not yet processed, carrying
\* the call's id. The history receives one tool message per call of the
\* reply: for a call with a new pair the same message as the transcript, and
\* for a call that repeats a pair a message with that call's id and the text
\* of the last call before it that had a new pair. The two sequences are the
\* same exactly when no pair repeats.
C15_TranscriptFreshHistoryAll ==
    \A s \in Sessions : Replied(s) =>
        LET calls == turn[s].calls
            ui    == AsToolMessages(ToolEntries(TurnEntries(s)))
            h     == ToolMessages(TurnHistory(s))
        IN  /\ ui = FreshMessages(calls)
            /\ Len(h) = Len(calls)
            /\ \A i \in 1..Len(calls) :
                  /\ h[i].tool_call_id = calls[i].id
                  /\ h[i].content = LoggedMessage(calls[LatestFresh(calls, i)]).content
            /\ ui = SelectSeq(h, LAMBDA m : Attempted(calls, m.tool_call_id))
            /\ (ui = h) <=> (RepeatedKeys(calls) = {})

C15_Witness ==
    \E s \in Sessions :
        /\ Done(s)
        /\ Len(turn[s].calls) = 3
        /\ RepeatedKeys(turn[s].calls) # {}
        /\ Len(ToolEntries(TurnEntries(s))) = 2
        /\ Len(ToolMessages(TurnHistory(s))) = 3
        /\ ToolMessages(TurnHistory(s))[3].content
              # LoggedMessage(turn[s].calls[3]).content

\* ------------------------------------------------------------------- C16
\* C16: once the first reply of a turn has been processed and it had tool
\* calls, the history holds, right after the reply's assistant message, one
\* tool message per call of the reply, repeats of a pair included, each with
\* its call's id and in the order of the calls; no other tool message of the
\* turn exists. They are all there while the follow-up invocation is still
\* to be issued, and the follow-up's input comes after them.
C16_ToolMessagePerCallBeforeFollowUp ==
    \A s \in Sessions : (Replied(s) /\ turn[s].calls # << >>) =>
        LET calls == turn[s].calls
            h     == TurnHistory(s)
            n     == Len(calls)
        IN  /\ Len(h) >= 3 + n
            /\ h[3] = AIMessage(turn[s].content, calls)
            /\ \A i \in 1..n :
                  /\ h[3 + i].type = "tool"
                  /\ h[3 + i].tool_call_id = calls[i].id
            /\ \A i \in 1..n :
                  Cardinality({j \in 1..Len(h) :
                      h[j].type = "tool" /\ h[j].tool_call_id = calls[i].id}) = 1
            /\ Len(ToolMessages(h)) = n
            /\ pc[s] = "follow" => Len(h) = 3 + n
            /\ Len(h) > 3 + n => h[4 + n] = HumanMessage(ContinueInput)

C16_Witness ==
    \E s \in Sessions :
        /\ pc[s] = "follow"
        /\ turn[s].phase = "follow"
        /\ RepeatedKeys(turn[s].calls) # {}
        /\ Len(ToolMessages(TurnHistory(s))) = Len(turn[s].calls)
        /\ LastOf(TurnHistory(s)).tool_call_id = Len(turn[s].calls)

\* ------------------------------------------------------------------- C17
\* C17: a user turn makes at most two model invocations, the first call and
\* at most one follow-up. A completed turn is idle again with its final
\* assistant message last in the UI transcript and in the history; an
\* aborted turn is idle again with the session's lesson still open for
\* input. The step that ends a follow-up, whatever tool calls the follow-up
\* reply carries, inserts no row, adds no tool message to the transcript or
\* the history and leaves no invocation pending. Every pending invocation
\* of a turn is eventually over.
C17_TurnEndsWithinTwoInvocations ==
    /\ [](\A s \in Sessions : turn[s].phase # "none" =>
            /\ turn[s].invocations <= 2
            /\ turn[s].followups <= 1
            /\ ContinueCount(TurnHistory(s)) <= 1
            /\ turn[s].phase \in {"done", "aborted"} => pc[s] = "idle"
            /\ Done(s) =>
                  /\ LastOf(messages[s]) = AssistantEntry(turn[s].visible)
                  /\ LastOf(store[turn[s].sid]) = AIMessage(turn[s].visible, << >>)
            /\ turn[s].phase = "aborted" =>
                  /\ lesson_initialized[s] /\ ~feedback_rendered[s]
                  /\ session_id[s] = turn[s].sid)
    /\ [][\A s \in Sessions : (pc[s] = "follow" /\ pc'[s] # "follow") =>
            /\ pc'[s] = "idle"
            /\ mistakes' = mistakes
            /\ ToolMessages(store'[session_id[s]]) = ToolMessages(store[session_id[s]])
            /\ ToolEntries(messages'[s]) = ToolEntries(messages[s])
            /\ turn'[s].invocations = 2]_vars
    /\ \A s \in Sessions : (pc[s] \in {"first", "follow"}) ~> (pc[s] = "idle")

C17_Witness ==
    \E s \in Sessions :
        /\ Done(s)
        /\ turn[s].invocations = 2
        /\ \E i \in 1..Len(TurnHistory(s)) :
              /\ TurnHistory(s)[i].type = "ai"
              /\ TurnHistory(s)[i].tool_calls # << >>
              /\ i > 1 /\ TurnHistory(s)[i - 1] = HumanMessage(ContinueInput)
        /\ mistakes = turn[s].pre_rows \o turn[s].inserted

\* ------------------------------------------------------------------- C18
\* C18: a user turn starts only in a session whose lesson is initialized and
\* whose feedback is not rendered, and a turn in progress is in such a
\* session. Once feedback is rendered it stays rendered until a Start Lesson
\* succeeds (or the process is started again), which leaves the lesson not
\* initialized; the lesson becomes initialized only when the opening call of
\* that session returns. In every state a UI transcript that is not empty
\* begins with an assistant entry.
C18_TurnOnlyInOpenLesson ==
    /\ [](\A s \in Sessions :
            /\ messages[s] # << >> => messages[s][1].role = "assistant"
            /\ pc[s] \in {"first", "follow"} =>
                  lesson_initialized[s] /\ ~feedback_rendered[s])
    /\ [][\A s \in Sessions :
            /\ (pc[s] = "idle" /\ pc'[s] = "first") =>
                  /\ lesson_initialized[s] /\ ~feedback_rendered[s]
                  /\ messages[s] # << >>
                  /\ messages'[s] = Append(messages[s], LastOf(messages'[s]))
                  /\ LastOf(messages'[s]).role = "user"
            /\ (Len(messages'[s]) > Len(messages[s])
                   /\ LastOf(messages'[s]).role = "user") =>
                  (pc[s] = "idle" /\ pc'[s] = "first")
            /\ (feedback_rendered[s] /\ ~feedback_rendered'[s]) =>
                  /\ last'.op \in {"StartLesson", "Restart"}
                  /\ ~lesson_initialized'[s]
            /\ (~lesson_initialized[s] /\ lesson_initialized'[s]) =>
                  (last'.op = "OpeningReply" /\ last'.s = s)
            /\ (last'.op = "GenerateFeedback" /\ last'.s = s) =>
                  feedback_rendered'[s]
       ]_vars

C18_Witness ==
    \E s \in Sessions :
        /\ pc[s] = "first"
        /\ \A x \in Sessions \ {s} : ~api_key[x]
        /\ \E i \in Ids \ {session_id[s]} :
              /\ Len(store[i]) = 1
              /\ store[i][1].content \in FeedbackTexts \cup {NoErrorsText, FeedbackErrorText}

\* ------------------------------------------------------------------- C19
PairsOf(calls) == {PairOf(calls[i].args) : i \in 1..Len(calls)}

\* C19 as stated: a turn whose first reply asks to log a pair that an earlier
\* turn has logged inserts a row for it, and the table then holds at least
\* two rows with that pair.
C19_Original ==
    \A s \in Sessions : Replied(s) =>
        \A k \in PairsOf(turn[s].calls) : RowsFor(turn[s].pre_rows, k) # {} =>
            /\ Cardinality(RowsFor(turn[s].inserted, k)) = 1
            /\ Cardinality(RowsFor(turn[s].pre_rows \o turn[s].inserted, k)) >= 2

\* C19: the pairs processed in earlier turns, of the same or of another
\* session, never keep a turn from logging a pair: for every pair of its
\* first reply the turn inserts one row, with the arguments of the first
\* call that carries the pair, if the INSERT of that call succeeds, and none
\* if it fails, whether or not the table already holds rows with that pair.
\* Rows with the same pair are all counted by feedback generation: as long
\* as the table holds at most FeedbackLimit rows, the counts of a report sum
\* to the number of rows.
C19_DedupSetFreshPerTurn ==
    /\ \A s \in Sessions : Replied(s) =>
          \A k \in PairsOf(turn[s].calls) :
              LET first == FirstCall(turn[s].calls, k)
                  rows  == RowsFor(turn[s].inserted, k)
              IN  /\ first \notin turn[s].failed =>
                        /\ Cardinality(rows) = 1
                        /\ \A i \in rows :
                              RowArgs(turn[s].inserted[i]) = turn[s].calls[first].args
                        /\ Cardinality(RowsFor(turn[s].pre_rows \o turn[s].inserted, k))
                              = Cardinality(RowsFor(turn[s].pre_rows, k)) + 1
                  /\ first \in turn[s].failed => rows = {}
    /\ \A x \in Sessions :
          (FeedbackShown(x) /\ last.path = "report"
              /\ Len(mistakes) <= FeedbackLimit) =>
              /\ Total(Figure(x)) = Len(mistakes)
              /\ \A ty \in TypesOf(mistakes) :
                    FigureCount(Figure(x), ty) = Cardinality(RowsOfType(mistakes, ty))

C19_Witness ==
    \E x, s \in Sessions :
        /\ FeedbackShown(x)
        /\ last.path = "report"
        /\ Replied(s)
        /\ Len(turn[s].pre_rows) = 1
        /\ Len(turn[s].inserted) = 1
        /\ RowKey(turn[s].pre_rows[1]) = RowKey(turn[s].inserted[1])
        /\ mistakes = turn[s].pre_rows \o turn[s].inserted
        /\ Total(Figure(x)) = 2

====
